---- MODULE Spec2Model ----
(***************************************************************************)
(* Title resolution engine of actions/actions.py: normalize_title,         *)
(* extract_title_from_text, similarity, get_row_value_case_insensitive,    *)
(* build_dataset_index with the process-wide _DATASET_CACHE, and            *)
(* ActionMovieDetailsFromDataset.run.                                       *)
(*                                                                         *)
(* A Python str is a sequence of one-character strings.                    *)
(***************************************************************************)
EXTENDS Integers, Sequences, FiniteSets, TLC

VARIABLES
    files,    \* dataset path -> the CSV file behind it (header, rows)
    cache,    \* _DATASET_CACHE: a dict from dataset path to index
    opened,   \* probe: how often dataset_path.open ran, per path
    parsed,   \* probe: how often the row loop ran to the end, per path
    pc,       \* per caller: where it stands in run / build_dataset_index
    loc,      \* per caller: its local variables
    tx        \* the text functions applied to one utterance

vars == <<files, cache, opened, parsed, pc, loc, tx>>

\* Python's None where a str may stand: no str has an element of four characters
None == <<"None">>

\* a Python dict is a function on its keys; d[k] = v
EmptyDict == [k \in {} |-> <<>>]
DictSet(d, k, v) == [x \in (DOMAIN d) \cup {k} |-> IF x = k THEN v ELSE d[x]]
\* d.get(k): None is the empty sequence here, falsy as None is
DictGet(d, k) == IF k \in DOMAIN d THEN d[k] ELSE <<>>

(***************************************************************************)
(* Bounds of the model.                                                    *)
(***************************************************************************)
MaxRows == 2      \* rows of a dataset file
MaxOpens == 2     \* opens of one dataset file in a run of the model
MaxParts == 3     \* fragments an utterance is composed of

(***************************************************************************)
(* Characters and strings.                                                 *)
(***************************************************************************)
Uppers == <<"A","B","C","D","E","F","G","H","I","J","K","L","M",
            "N","O","P","Q","R","S","T","U","V","W","X","Y","Z">>
Lowers == <<"a","b","c","d","e","f","g","h","i","j","k","l","m",
            "n","o","p","q","r","s","t","u","v","w","x","y","z">>
Digits == {"0","1","2","3","4","5","6","7","8","9"}
Whitespace == {" ", "\t", "\n", "\r", "\f"}

Range(s) == {s[i] : i \in 1..Len(s)}

\* str.lower on one character
LowerChar(c) ==
    IF \E i \in 1..Len(Uppers) : Uppers[i] = c
    THEN Lowers[CHOOSE i \in 1..Len(Uppers) : Uppers[i] = c]
    ELSE c

\* str.lower
Lower(s) == [i \in 1..Len(s) |-> LowerChar(s[i])]

\* str.lstrip(chars)
RECURSIVE LStrip(_, _)
LStrip(s, chars) ==
    IF s # <<>> /\ Head(s) \in chars THEN LStrip(Tail(s), chars) ELSE s

\* str.rstrip(chars)
RECURSIVE RStrip(_, _)
RStrip(s, chars) ==
    IF s # <<>> /\ s[Len(s)] \in chars
    THEN RStrip(SubSeq(s, 1, Len(s) - 1), chars)
    ELSE s

\* str.strip(chars); str.strip() is StripChars(s, Whitespace)
StripChars(s, chars) == RStrip(LStrip(s, chars), chars)

\* str.startswith
StartsWith(s, p) == Len(p) <= Len(s) /\ SubSeq(s, 1, Len(p)) = p

\* s.replace(p, "", 1) where s.startswith(p): the first occurrence is the prefix
DropPrefix(s, p) == SubSeq(s, Len(p) + 1, Len(s))

RECURSIVE Concat(_)
Concat(ss) == IF ss = <<>> THEN <<>> ELSE Head(ss) \o Concat(Tail(ss))

(***************************************************************************)
(* normalize_title                                                         *)
(***************************************************************************)
\* the class [a-z0-9\s] of the first re.sub
IsKept(c) == c \in Range(Lowers) \/ c \in Digits \/ c \in Whitespace

\* re.sub(r"[^a-z0-9\s]", " ", t)
SubNonAlnum(t) == [i \in 1..Len(t) |-> IF IsKept(t[i]) THEN t[i] ELSE " "]

\* re.sub(r"\s+", " ", t)
RECURSIVE CollapseSpace(_)
CollapseSpace(t) ==
    IF t = <<>> THEN <<>>
    ELSE IF Head(t) \in Whitespace
         THEN <<" ">> \o CollapseSpace(LStrip(t, Whitespace))
         ELSE <<Head(t)>> \o CollapseSpace(Tail(t))

NormalizeNoFinalStrip(title) ==
    IF title = None \/ title = <<>> THEN <<>>
    ELSE CollapseSpace(SubNonAlnum(StripChars(Lower(title), Whitespace)))

normalize_title(title) ==
    IF title = None \/ title = <<>> THEN <<>>
    ELSE StripChars(
           CollapseSpace(SubNonAlnum(StripChars(Lower(title), Whitespace))),
           Whitespace)

(***************************************************************************)
(* extract_title_from_text                                                 *)
(***************************************************************************)
Quote == "\""

phrases == <<
    <<"t","e","l","l"," ","m","e"," ","a","b","o","u","t">>,
    <<"w","h","a","t"," ","i","s">>,
    <<"i","n","f","o"," ","f","o","r">>,
    <<"d","e","t","a","i","l","s"," ","f","o","r">>,
    <<"p","l","o","t"," ","o","f">>,
    <<"d","u","r","a","t","i","o","n"," ","o","f">>,
    <<"s","t","o","r","y"," ","o","f">>,
    <<"h","o","w"," ","l","o","n","g"," ","i","s">> >>

\* the characters of the final cleaned.strip(" ?!., sync'\"")
StripSet == {" ", "?", "!", ".", ",", "s", "y", "n", "c", "'", Quote}

\* the positions where r'"([^"]+)"' matches: a quote, one or more non-quotes, a quote
QuotedStarts(text) ==
    {i \in 1..Len(text) :
        /\ text[i] = Quote
        /\ i + 1 <= Len(text) /\ text[i + 1] # Quote
        /\ \E j \in (i + 2)..Len(text) : text[j] = Quote}

\* re.findall(r'"([^"]+)"', text)[0]
FirstQuoted(text) ==
    LET i == CHOOSE k \in QuotedStarts(text) :
                 \A m \in QuotedStarts(text) : k <= m
        j == CHOOSE k \in (i + 2)..Len(text) :
                 text[k] = Quote /\ \A m \in (i + 2)..(k - 1) : text[m] # Quote
    IN SubSeq(text, i + 1, j - 1)

\* the loop over phrases stopped after the first removal
RECURSIVE StripPhrasesOnce(_, _, _)
StripPhrasesOnce(cleaned, i, removed) ==
    IF i > Len(phrases) THEN [cleaned |-> cleaned, removed |-> removed]
    ELSE IF StartsWith(cleaned, phrases[i])
         THEN [cleaned |-> DropPrefix(cleaned, phrases[i]),
               removed |-> Append(removed, i)]
         ELSE StripPhrasesOnce(cleaned, i + 1, removed)

\* for p in phrases: if cleaned.startswith(p): cleaned = cleaned.replace(p, "", 1)
\* from phrase i on; removed lists the indices of the phrases removed
RECURSIVE StripPhrases(_, _, _)
StripPhrases(cleaned, i, removed) ==
    IF i > Len(phrases) THEN [cleaned |-> cleaned, removed |-> removed]
    ELSE IF StartsWith(cleaned, phrases[i])
         THEN StripPhrases(DropPrefix(cleaned, phrases[i]), i + 1,
                           Append(removed, i))
         ELSE StripPhrases(cleaned, i + 1, removed)

\* the steps of extract_title_from_text, each intermediate value kept
ExtractSteps(text) ==
    LET t == StripChars(Lower(text), Whitespace)
        q == QuotedStarts(t) # {}
        sp == StripPhrases(t, 1, <<>>)
    IN [text    |-> t,
        quoted  |-> q,
        cleaned |-> IF q THEN t ELSE sp.cleaned,
        removed |-> IF q THEN <<>> ELSE sp.removed,
        result  |-> IF q THEN StripChars(FirstQuoted(t), Whitespace)
                    ELSE StripChars(sp.cleaned, StripSet)]

extract_title_from_text(text) == ExtractSteps(text).result

(***************************************************************************)
(* similarity: difflib.SequenceMatcher(None, a, b).ratio().  Strings are   *)
(* shorter than the 200 characters from which difflib's autojunk acts.     *)
(* Windows are half-open, lo..hi-1, over 1-based positions.                *)
(***************************************************************************)
\* length of the common run of a from i and b from j inside the window
RECURSIVE RunLen(_, _, _, _, _, _)
RunLen(a, b, i, j, ahi, bhi) ==
    IF i < ahi /\ j < bhi /\ a[i] = b[j]
    THEN 1 + RunLen(a, b, i + 1, j + 1, ahi, bhi)
    ELSE 0

\* SequenceMatcher.find_longest_match: the longest block, of those the one
\* starting earliest in a, of those the one starting earliest in b
find_longest_match(a, b, alo, ahi, blo, bhi) ==
    LET pos == (alo..(ahi - 1)) \X (blo..(bhi - 1))
        len(p) == RunLen(a, b, p[1], p[2], ahi, bhi)
        best == {p \in pos : \A q \in pos : len(q) <= len(p)}
        first == CHOOSE p \in best :
                    \A q \in best : p[1] < q[1] \/ (p[1] = q[1] /\ p[2] <= q[2])
    IN IF pos = {} \/ len(first) = 0
       THEN [i |-> alo, j |-> blo, k |-> 0]
       ELSE [i |-> first[1], j |-> first[2], k |-> len(first)]

\* SequenceMatcher.get_matching_blocks, summed: the characters matched
RECURSIVE MatchCount(_, _, _, _, _, _)
MatchCount(a, b, alo, ahi, blo, bhi) ==
    LET m == find_longest_match(a, b, alo, ahi, blo, bhi)
    IN IF m.k = 0 THEN 0
       ELSE m.k
            + (IF alo < m.i /\ blo < m.j
               THEN MatchCount(a, b, alo, m.i, blo, m.j) ELSE 0)
            + (IF m.i + m.k < ahi /\ m.j + m.k < bhi
               THEN MatchCount(a, b, m.i + m.k, ahi, m.j + m.k, bhi) ELSE 0)

\* a score is the fraction <<numerator, denominator>>
\* ratio(): 2.0 * matches / length if length else 1.0
similarity(a, b) ==
    IF Len(a) + Len(b) = 0 THEN <<1, 1>>
    ELSE <<2 * MatchCount(a, b, 1, Len(a) + 1, 1, Len(b) + 1), Len(a) + Len(b)>>

\* x >= y on scores
ScoreGe(x, y) == x[1] * y[2] >= y[1] * x[2]

\* x > y on scores
ScoreGt(x, y) == x[1] * y[2] > y[1] * x[2]

\* best_score = 0.0
ZeroScore == <<0, 1>>

\* the 0.8 of "if best_score > 0.8"
Threshold == <<4, 5>>

\* best_score >= 0.8
AcceptsAtThreshold(score) == ScoreGe(score, Threshold)

\* if best_score > 0.8
Accepts(score) == ScoreGt(score, Threshold)

(***************************************************************************)
(* Dataset rows and get_row_value_case_insensitive.  A row of              *)
(* csv.DictReader is an ordered mapping: a sequence of <<key, value>>.     *)
(***************************************************************************)
KeyTitle == <<"t","i","t","l","e">>
KeyTitleCap == <<"T","i","t","l","e">>
KeyType == <<"t","y","p","e">>
KeyShowId == <<"s","h","o","w","_","i","d">>

get_row_value_case_insensitive(row, key) ==
    LET hits == {i \in 1..Len(row) : Lower(row[i][1]) = Lower(key)}
    IN IF hits = {} THEN <<>>
       ELSE LET i == CHOOSE h \in hits : \A g \in hits : h <= g
            IN IF row[i][2] = None THEN <<>> ELSE row[i][2]

(***************************************************************************)
(* build_dataset_index, the body of its row loop                           *)
(***************************************************************************)
\* the loop body without "if not name: continue"
IndexRowNoSkip(acc, row) ==
    LET name == StripChars(get_row_value_case_insensitive(row, KeyTitle),
                           Whitespace)
        n == normalize_title(name)
    IN [rows_by_norm |-> DictSet(acc.rows_by_norm, n, row),
        titles_set   |-> acc.titles_set \cup {n}]

\* the loop body keeping the first row of a normalized title
IndexRowKeepFirst(acc, row) ==
    LET name == StripChars(get_row_value_case_insensitive(row, KeyTitle),
                           Whitespace)
        n == normalize_title(name)
    IN IF name = <<>> \/ n \in DOMAIN acc.rows_by_norm THEN acc
       ELSE [rows_by_norm |-> DictSet(acc.rows_by_norm, n, row),
             titles_set   |-> acc.titles_set \cup {n}]

\* lines 90-94: one row of the loop, on the two locals
IndexRow(acc, row) ==
    LET name == StripChars(get_row_value_case_insensitive(row, KeyTitle),
                           Whitespace)
        n == normalize_title(name)
    IN IF name = <<>> THEN acc
       ELSE [rows_by_norm |-> DictSet(acc.rows_by_norm, n, row),
             titles_set   |-> acc.titles_set \cup {n}]

\* lines 84-85: the two locals before the loop
EmptyAcc == [rows_by_norm |-> EmptyDict, titles_set |-> {}]

\* lines 89-94: the loop over rows i..n
RECURSIVE BuildRows(_, _, _, _)
BuildRows(rows, i, n, acc) ==
    IF i > n THEN acc ELSE BuildRows(rows, i + 1, n, IndexRow(acc, rows[i]))

(***************************************************************************)
(* The fuzzy scan of run: the loop over index["titles_set"] in the order   *)
(* the set iterates, which Python leaves open.                             *)
(***************************************************************************)
\* lines 181-184 from position i on; best is (best_score, best_match)
RECURSIVE Scan(_, _, _, _)
Scan(target_norm, order, i, best) ==
    IF i > Len(order) THEN best
    ELSE LET score == similarity(target_norm, order[i])
         IN Scan(target_norm, order, i + 1,
                 IF ScoreGt(score, best.score)
                 THEN [score |-> score, match |-> order[i]]
                 ELSE best)

\* the orders in which a set may iterate
Orders(S) ==
    {o \in [1..Cardinality(S) -> S] : \A x \in S : \E i \in DOMAIN o : o[i] = x}

(***************************************************************************)
(* Inputs: dataset files, slot values and utterances.                      *)
(***************************************************************************)
Threads == {"t1", "t2"}

\* get_project_root() / "data" / "netflix_titles.csv", resolved
NetflixPath == "data/netflix_titles.csv"
OtherPath == "data/other.csv"
DatasetIds == {NetflixPath, OtherPath}

sUpBang == <<"U","p","!">>
sUp == <<"u","p">>
sUP == <<"U","P">>
sAbc == <<"a","b","c">>
sAbcd == <<"a","b","c","d">>
sAbce == <<"a","b","c","e">>
sBang == <<"!">>
sWhatIsQ == phrases[2] \o <<"?">>
sPlotOfUp == phrases[5] \o <<" ">> \o sUP
sWhatIsUDotP == phrases[2] \o <<" ", "U", ".", "p">>
sQuotedAbcd == <<Quote>> \o sAbcd \o <<Quote, "?">>

\* the title cells a row may hold; None is a cell the row is too short for
TitleValues == {None, sBang, sUpBang, sUp, sAbcd, sAbce}
ConcTitleValues == {None, sUpBang, sUp}
SeqTitleValues == {<<" ">>, sUpBang, sUp}

TitledHeader == <<KeyShowId, KeyTitleCap>>
UntitledHeader == <<KeyShowId, KeyType>>

SeqsUpTo(S, n) == UNION {[1..k -> S] : k \in 0..n}

\* the rows csv.DictReader yields for a header and the title column's cells;
\* the first column numbers the rows: "s1", "s2", ...
RowsOf(header, cells) ==
    [i \in 1..Len(cells) |->
        <<<<header[1], <<"s", <<"1","2","3","4","5","6","7","8","9">>[i]>>>>,
          <<header[2], cells[i]>>>>]

\* files with a Title column, and files without one
Files == {RowsOf(TitledHeader, c) : c \in SeqsUpTo(TitleValues, MaxRows)}
         \cup {RowsOf(UntitledHeader, c) : c \in SeqsUpTo({sUp}, MaxRows)}
ConcFiles == {RowsOf(TitledHeader, c) : c \in SeqsUpTo(ConcTitleValues, MaxRows)}
SeqFiles == {RowsOf(TitledHeader, c) : c \in SeqsUpTo(SeqTitleValues, MaxRows)}
OtherFile == RowsOf(<<KeyShowId, KeyTitle>>, <<sAbc>>)

\* <<movie_title slot, latest_message text>>
RunInputs == {<<None, sWhatIsQ>>, <<None, <<>> >>, <<sBang, sUp>>,
              << <<>>, sPlotOfUp>>, <<sUP, <<>> >>, <<None, sWhatIsUDotP>>,
              <<sAbc, <<>> >>, <<None, sQuotedAbcd>>}
ConcInputs == {<<sUP, <<>> >>}

\* what utterances are composed of
Fragments == {phrases[1], phrases[2], phrases[5], <<" ">>, <<"?">>, <<Quote>>,
              sUP, <<"C","a","s","i","n","o">>, <<"7">>, <<"\t">>, <<"-">>}
Utterances == {Concat(ps) : ps \in SeqsUpTo(Fragments, MaxParts)}

(***************************************************************************)
(* State.                                                                  *)
(***************************************************************************)
NoIdx == [rows_by_norm |-> EmptyDict, titles_set |-> {}, obj |-> 0]

Locals0 ==
    [mode |-> "", path |-> "", slot |-> <<>>, user_text |-> <<>>,
     raw_input |-> <<>>, target_norm |-> <<>>,
     obj |-> 0,
     index |-> NoIdx, row |-> <<>>, order |-> <<>>, via |-> "", out |-> ""]

Tx0(u) == [phase |-> "input", utterance |-> u, steps |-> ExtractSteps(<<>>),
           arg |-> <<>>, n1 |-> <<>>, n2 |-> <<>>]

InitWith(fs, us) ==
    /\ files \in {[d \in DatasetIds |-> IF d = NetflixPath THEN f ELSE OtherFile]
                     : f \in fs}
    /\ cache = EmptyDict
    /\ opened = [d \in DatasetIds |-> 0]
    /\ parsed = [d \in DatasetIds |-> 0]
    /\ pc = [t \in Threads |-> "idle"]
    /\ loc = [t \in Threads |-> Locals0]
    /\ tx \in {Tx0(u) : u \in us}

Init == InitWith(ConcFiles, {<<>>})
SeqInit == InitWith(SeqFiles, {<<>>})
RunInit == InitWith(Files, {<<>>})
TextInit == InitWith({OtherFile}, Utterances)

(***************************************************************************)
(* ActionMovieDetailsFromDataset.run and build_dataset_index, step by step *)
(***************************************************************************)
Idle(t) == pc[t] \in {"idle", "done"}

Truthy(s) == s # None /\ s # <<>>

\* lines 168-169 for a slot and a text
RunLocals(slot, text) ==
    LET user_text == Lower(text)
        raw_input == IF Truthy(slot) THEN slot
                     ELSE extract_title_from_text(user_text)
    IN [Locals0 EXCEPT !.mode = "run", !.path = NetflixPath, !.slot = slot,
                       !.user_text = user_text, !.raw_input = raw_input,
                       !.target_norm = normalize_title(raw_input)]

\* lines 168-169 for every input of the model
RunTable == [in \in RunInputs \cup ConcInputs |-> RunLocals(in[1], in[2])]

\* run without "if not target_norm"
RunStartNoEmptyCheck(t, slot, text) ==
    /\ Idle(t)
    /\ loc' = [loc EXCEPT ![t] = RunTable[<<slot, text>>]]
    /\ pc' = [pc EXCEPT ![t] = "check"]
    /\ UNCHANGED <<files, cache, opened, parsed, tx>>

\* lines 163-173: the hint, its normalization, the prompt for a title
RunStart(t, slot, text) ==
    /\ Idle(t)
    /\ LET l == RunTable[<<slot, text>>]
       IN IF l.target_norm = <<>>
          THEN /\ loc' = [loc EXCEPT ![t] = [l EXCEPT !.out = "EmptyQuery"]]
               /\ pc' = [pc EXCEPT ![t] = "done"]
          ELSE /\ loc' = [loc EXCEPT ![t] = l]
               /\ pc' = [pc EXCEPT ![t] = "check"]
    /\ UNCHANGED <<files, cache, opened, parsed, tx>>

\* a caller of build_dataset_index(dataset_path) other than run
BuildStart(t, d) ==
    /\ Idle(t)
    /\ loc' = [loc EXCEPT ![t] = [Locals0 EXCEPT !.mode = "build", !.path = d]]
    /\ pc' = [pc EXCEPT ![t] = "check"]
    /\ UNCHANGED <<files, cache, opened, parsed, tx>>

\* build_dataset_index returns index to its caller: run goes on at line 176
Returned(l, index) ==
    [l EXCEPT !.index = index, !.out = IF l.mode = "build" THEN "Index" ELSE ""]
AfterReturn(l) == IF l.mode = "build" THEN "done" ELSE "lookup"

\* the membership test always failing
CacheCheckNeverHits(t) ==
    /\ pc[t] = "check"
    /\ loc' = loc
    /\ pc' = [pc EXCEPT ![t] = "open"]
    /\ UNCHANGED <<files, cache, opened, parsed, tx>>

\* lines 80-82: the cache hit, or on to the build
CacheCheck(t) ==
    /\ pc[t] = "check"
    /\ IF loc[t].path \in DOMAIN cache
       THEN /\ loc' = [loc EXCEPT ![t] = Returned(loc[t], cache[loc[t].path])]
            /\ pc' = [pc EXCEPT ![t] = AfterReturn(loc[t])]
       ELSE /\ loc' = loc
            /\ pc' = [pc EXCEPT ![t] = "open"]
    /\ UNCHANGED <<files, cache, opened, parsed, tx>>

\* line 87: the file opens; obj tells this build's index from any other's
OpenOk(t) ==
    /\ pc[t] = "open"
    /\ opened[loc[t].path] < MaxOpens
    /\ opened' = [opened EXCEPT ![loc[t].path] = @ + 1]
    /\ loc' = [loc EXCEPT ![t].obj = opened[loc[t].path] + 1]
    /\ pc' = [pc EXCEPT ![t] = "parse"]
    /\ UNCHANGED <<files, cache, parsed, tx>>

\* the exception leaves build_dataset_index and run; the locals are gone
Raised(l) ==
    [Locals0 EXCEPT !.mode = l.mode, !.path = l.path, !.slot = l.slot,
                    !.user_text = l.user_text, !.raw_input = l.raw_input,
                    !.target_norm = l.target_norm, !.out = "Raised"]

\* line 87: dataset_path.open raises
OpenFail(t) ==
    /\ pc[t] = "open"
    /\ loc' = [loc EXCEPT ![t] = Raised(loc[t])]
    /\ pc' = [pc EXCEPT ![t] = "done"]
    /\ UNCHANGED <<files, cache, opened, parsed, tx>>

\* a failing read that publishes what the loop has built so far
ParseFailPublishes(t) ==
    /\ pc[t] = "parse"
    /\ \E k \in 0..Len(files[loc[t].path]) :
         LET acc == BuildRows(files[loc[t].path], 1, k, EmptyAcc)
         IN cache' = DictSet(cache, loc[t].path,
                             [rows_by_norm |-> acc.rows_by_norm,
                              titles_set |-> acc.titles_set,
                              obj |-> loc[t].obj])
    /\ loc' = [loc EXCEPT ![t] = Raised(loc[t])]
    /\ pc' = [pc EXCEPT ![t] = "done"]
    /\ UNCHANGED <<files, opened, parsed, tx>>

\* line 89: a read (of the header, of a row) raises after k rows were indexed
\* in the locals, which the exception discards
ParseFail(t) ==
    /\ pc[t] = "parse"
    /\ \E k \in 0..Len(files[loc[t].path]) :
         loc' = [loc EXCEPT ![t] = Raised(loc[t])]
    /\ pc' = [pc EXCEPT ![t] = "done"]
    /\ UNCHANGED <<files, cache, opened, parsed, tx>>

\* lines 84-96: the loop over all rows, on the caller's locals and the file
\* alone; the file closes and index is made
Parse(t) ==
    /\ pc[t] = "parse"
    /\ parsed' = [parsed EXCEPT ![loc[t].path] = @ + 1]
    /\ LET rows == files[loc[t].path]
           acc == BuildRows(rows, 1, Len(rows), EmptyAcc)
       IN loc' = [loc EXCEPT ![t].index =
                     [rows_by_norm |-> acc.rows_by_norm,
                      titles_set |-> acc.titles_set, obj |-> loc[t].obj]]
    /\ pc' = [pc EXCEPT ![t] = "publish"]
    /\ UNCHANGED <<files, cache, opened, tx>>

\* lines 97-98
Publish(t) ==
    /\ pc[t] = "publish"
    /\ cache' = DictSet(cache, loc[t].path, loc[t].index)
    /\ loc' = [loc EXCEPT ![t] = Returned(loc[t], loc[t].index)]
    /\ pc' = [pc EXCEPT ![t] = AfterReturn(loc[t])]
    /\ UNCHANGED <<files, opened, parsed, tx>>

\* lines 176-179: the exact lookup
ExactLookup(t) ==
    /\ pc[t] = "lookup"
    /\ LET row == DictGet(loc[t].index.rows_by_norm, loc[t].target_norm)
       IN IF row # <<>>
          THEN /\ loc' = [loc EXCEPT ![t].row = row, ![t].via = "exact",
                                     ![t].out = "Found"]
               /\ pc' = [pc EXCEPT ![t] = "done"]
          ELSE /\ loc' = loc
               /\ pc' = [pc EXCEPT ![t] = "fuzzy"]
    /\ UNCHANGED <<files, cache, opened, parsed, tx>>

\* lines 180-186 and 188, 207: the fuzzy fallback and its outcome
FuzzyScan(t) ==
    /\ pc[t] = "fuzzy"
    /\ \E order \in Orders(loc[t].index.titles_set) :
         LET best == Scan(loc[t].target_norm, order, 1,
                          [score |-> ZeroScore, match |-> None])
             row == IF Accepts(best.score)
                    THEN DictGet(loc[t].index.rows_by_norm, best.match)
                    ELSE <<>>
         IN loc' = [loc EXCEPT ![t].order = order, ![t].row = row,
                               ![t].via = IF row # <<>> THEN "fuzzy" ELSE "",
                               ![t].out = IF row # <<>> THEN "Found"
                                          ELSE "NotFound"]
    /\ pc' = [pc EXCEPT ![t] = "done"]
    /\ UNCHANGED <<files, cache, opened, parsed, tx>>

Step(t, inputs, ids) ==
    \/ \E in \in inputs : RunStart(t, in[1], in[2])
    \/ \E d \in ids : BuildStart(t, d)
    \/ CacheCheck(t)
    \/ OpenOk(t)
    \/ OpenFail(t)
    \/ Parse(t)
    \/ ParseFail(t)
    \/ Publish(t)
    \/ ExactLookup(t)
    \/ FuzzyScan(t)

(***************************************************************************)
(* The text functions applied to an utterance.                             *)
(***************************************************************************)
TxExtract ==
    /\ tx.phase = "input"
    /\ tx' = [tx EXCEPT !.phase = "extracted",
                        !.steps = ExtractSteps(tx.utterance)]
    /\ UNCHANGED <<files, cache, opened, parsed, pc, loc>>

\* normalize_title of the utterance itself or of the title extracted from it
TxNormalize ==
    /\ tx.phase \in {"input", "extracted"}
    /\ LET x == IF tx.phase = "input" THEN tx.utterance ELSE tx.steps.result
       IN tx' = [tx EXCEPT !.phase = "normalized", !.arg = x,
                           !.n1 = normalize_title(x)]
    /\ UNCHANGED <<files, cache, opened, parsed, pc, loc>>

TxNormalizeAgain ==
    /\ tx.phase = "normalized"
    /\ tx' = [tx EXCEPT !.phase = "renormalized", !.n2 = normalize_title(tx.n1)]
    /\ UNCHANGED <<files, cache, opened, parsed, pc, loc>>

(***************************************************************************)
(* Specifications: concurrent callers of run and build_dataset_index on    *)
(* one dataset; one caller, call after call, on two datasets; one caller   *)
(* of run, call after call, on the richer files and inputs; the text       *)
(* functions.                                                              *)
(***************************************************************************)
Next == \E t \in Threads : Step(t, ConcInputs, {NetflixPath})
Spec == Init /\ [][Next]_vars

SeqNext == Step("t1", ConcInputs, DatasetIds)
SpecSeq == SeqInit /\ [][SeqNext]_vars

RunNext == Step("t1", RunInputs, {NetflixPath})
SpecRun == RunInit /\ [][RunNext]_vars

TextNext == TxExtract \/ TxNormalize \/ TxNormalizeAgain
SpecText == TextInit /\ [][TextNext]_vars

(***************************************************************************)
(* Properties.                                                             *)
(***************************************************************************)
\* the title cell of a row as the row loop reads it
TitleOf(row) == get_row_value_case_insensitive(row, KeyTitle)

\* the rows of a file with a non-empty title that normalizes to n
Matching(rows, n) ==
    {i \in 1..Len(rows) : TitleOf(rows[i]) # <<>>
                          /\ normalize_title(TitleOf(rows[i])) = n}

Last(S) == CHOOSE i \in S : \A j \in S : j <= i

\* the rows of a file the row loop indexes under key k, and all its keys
Indexed(rows, k) ==
    {i \in 1..Len(rows) : StripChars(TitleOf(rows[i]), Whitespace) # <<>>
                          /\ normalize_title(TitleOf(rows[i])) = k}
IndexedKeys(rows) ==
    {normalize_title(TitleOf(rows[i])) :
        i \in {j \in 1..Len(rows) :
                  StripChars(TitleOf(rows[j]), Whitespace) # <<>>}}

\* C1: concurrent callers of build_dataset_index for one dataset identifier
\* parse the dataset at most once for that identifier.
C1_ParsedAtMostOnce == \A d \in DatasetIds : parsed[d] <= 1

\* C2: in a sequential run, once the cache holds an index for an identifier
\* the entry stays as it is, the dataset is neither opened nor parsed again,
\* a later call returns that very index, and no identifier is parsed twice.
C2_CacheHitNoReparse ==
    [][\A d \in DatasetIds :
         /\ parsed'[d] <= 1
         /\ d \in DOMAIN cache =>
              /\ d \in DOMAIN cache' /\ cache'[d] = cache[d]
              /\ opened'[d] = opened[d] /\ parsed'[d] = parsed[d]
              /\ \A t \in Threads :
                   (pc[t] = "check" /\ loc[t].path = d /\ pc'[t] # "check")
                   => (loc'[t].index = cache[d] /\ pc'[t] # "open")]_vars

C2_Witness ==
    \E t \in Threads :
        /\ pc[t] = "done" /\ loc[t].out = "Index" /\ loc[t].obj = 0
        /\ loc[t].path \in DOMAIN cache /\ loc[t].index = cache[loc[t].path]
        /\ opened[loc[t].path] = 1 /\ parsed[loc[t].path] = 1

\* C3: a failing open or parse ends the call in an error that is not
\* "not found" and leaves the cache as it was, and every index written to
\* the cache is the index of all rows of the dataset.
C3_FailureLeavesCache ==
    [][/\ \A t \in Threads :
            (pc[t] \in {"open", "parse"} /\ pc'[t] = "done")
            => /\ loc'[t].out = "Raised"
               /\ loc'[t].index = NoIdx /\ loc'[t].row = <<>>
               /\ cache' = cache
       /\ \A d \in DOMAIN cache' :
            (d \notin DOMAIN cache \/ cache'[d] # cache[d]) =>
            /\ cache'[d].titles_set = IndexedKeys(files[d])
            /\ DOMAIN cache'[d].rows_by_norm = IndexedKeys(files[d])
            /\ \A k \in IndexedKeys(files[d]) :
                 cache'[d].rows_by_norm[k] = files[d][Last(Indexed(files[d], k))]]_vars

C3_Witness ==
    \E t \in Threads :
        /\ pc[t] = "done" /\ loc[t].mode = "run" /\ loc[t].out = "Raised"
        /\ loc[t].obj = 0
        /\ opened[loc[t].path] >= 1 /\ loc[t].path \notin DOMAIN cache
        /\ Len(files[loc[t].path]) >= 1

\* the hint of a run: the slot if it is set, else the title extracted
HintOf(l) ==
    IF Truthy(l.slot) THEN l.slot ELSE extract_title_from_text(l.user_text)

\* the normalized hint of every input of the model
HintNorm ==
    [k \in {<<in[1], Lower(in[2])>> : in \in RunInputs \cup ConcInputs} |->
        normalize_title(HintOf([slot |-> k[1], user_text |-> k[2]]))]

\* C4: a run whose hint normalizes to the empty string ends with the prompt
\* for a title, and neither calls build_dataset_index, opens the dataset,
\* changes the cache, nor reaches the exact lookup or the fuzzy scan.
C4_EmptyQueryNoIndex ==
    [][\A t \in Threads :
         /\ (Idle(t) /\ loc'[t] # loc[t] /\ loc'[t].mode = "run")
            => loc'[t].target_norm = HintNorm[<<loc'[t].slot, loc'[t].user_text>>]
         /\ (loc'[t].mode = "run" /\ loc'[t].target_norm = <<>>)
            => /\ pc'[t] = "done" /\ loc'[t].out = "EmptyQuery"
               /\ loc'[t].index = NoIdx /\ loc'[t].obj = 0
               /\ loc'[t].row = <<>> /\ loc'[t].order = <<>>
               /\ (loc'[t] # loc[t] =>
                     cache' = cache /\ opened' = opened /\ parsed' = parsed)]_vars

C4_Witness ==
    \E t \in Threads :
        /\ pc[t] = "done" /\ loc[t].out = "EmptyQuery"
        /\ ~Truthy(loc[t].slot) /\ loc[t].user_text # <<>>
        /\ NetflixPath \in DOMAIN cache

\* C5: a run whose hint normalizes to a non-empty string that is the
\* normalized title of a dataset row with a non-empty title succeeds by the
\* exact lookup, without the fuzzy scan, with the last such row.
C5_ExactLastRow ==
    \A t \in Threads :
        LET l == loc[t]
            m == Matching(files[l.path], l.target_norm)
        IN (l.mode = "run" /\ l.target_norm # <<>> /\ m # {})
           => /\ pc[t] # "fuzzy"
              /\ (pc[t] = "done" /\ l.out # "Raised")
                 => /\ l.out = "Found" /\ l.via = "exact" /\ l.order = <<>>
                    /\ l.row = files[l.path][Last(m)]

C5_Witness ==
    \E t \in Threads :
        /\ pc[t] = "done" /\ loc[t].via = "exact"
        /\ \E i, j \in Matching(files[loc[t].path], loc[t].target_norm) :
             /\ i < j
             /\ TitleOf(files[loc[t].path][i]) # TitleOf(files[loc[t].path][j])
             /\ loc[t].row = files[loc[t].path][j]

\* the titles of T with the highest score against target
Best(target, T) ==
    {x \in T : \A y \in T : ScoreGe(similarity(target, x), similarity(target, y))}

\* C6: after a miss of the exact lookup the run finds a record if and only
\* if the highest score over titles_set is strictly greater than 0.8, the
\* record being the one stored under the first title, in the order of the
\* iteration, with that score; else, and with no rows at all, not found.
C6_FuzzyThreshold ==
    \A t \in Threads :
        LET l == loc[t]
            T == l.index.titles_set
            best == Best(l.target_norm, T)
            above == \E x \in T : ScoreGt(similarity(l.target_norm, x), Threshold)
        IN (pc[t] = "done" /\ l.mode = "run" /\ l.via # "exact"
            /\ l.out \in {"Found", "NotFound"})
           => /\ Range(l.order) = T /\ Len(l.order) = Cardinality(T)
              /\ l.out = "Found" <=> above
              /\ T = {} => l.out = "NotFound"
              /\ l.out = "Found" =>
                   LET i == CHOOSE k \in 1..Len(l.order) :
                                /\ l.order[k] \in best
                                /\ \A j \in 1..(k - 1) : l.order[j] \notin best
                   IN l.row = l.index.rows_by_norm[l.order[i]]

C6_Witness ==
    \E t \in Threads :
        /\ pc[t] = "done" /\ loc[t].via = "fuzzy"
        /\ Cardinality(Best(loc[t].target_norm, loc[t].index.titles_set)) = 2

\* C7 as claimed: without a quoted substring at most one phrase is removed,
\* the first of the list the text starts with.
C7_AtMostOnePhrase ==
    (tx.phase = "extracted" /\ ~tx.steps.quoted)
    => /\ Len(tx.steps.removed) <= 1
       /\ LET starts == {p \in 1..Len(phrases) :
                            StartsWith(tx.steps.text, phrases[p])}
          IN starts # {} =>
               tx.steps.removed = <<CHOOSE p \in starts : \A q \in starts : p <= q>>

\* the text left after the removed phrases listed before phrase p are dropped
RECURSIVE LeftAt(_, _, _)
LeftAt(text, removed, p) ==
    IF removed = <<>> \/ Head(removed) >= p THEN text
    ELSE LeftAt(DropPrefix(text, phrases[Head(removed)]), Tail(removed), p)

\* C7 as amended: without a quoted substring the phrases removed are, in the
\* order of the list, exactly those the text left at their turn starts with;
\* each is removed from the start, and a phrase listed before one already
\* removed is not tried again.
C7_PhrasesInListOrder ==
    (tx.phase = "extracted" /\ ~tx.steps.quoted)
    => LET r == tx.steps.removed
           t == tx.steps.text
       IN /\ \A i, j \in 1..Len(r) : i < j => r[i] < r[j]
          /\ t = Concat([i \in 1..Len(r) |-> phrases[r[i]]]) \o tx.steps.cleaned
          /\ \A p \in 1..Len(phrases) :
               p \in Range(r) <=> StartsWith(LeftAt(t, r, p), phrases[p])

C7_Witness ==
    /\ tx.phase = "extracted" /\ ~tx.steps.quoted
    /\ Len(tx.steps.removed) = 2
    /\ tx.steps.result # <<>>

\* the space and the punctuation and quote characters of the final strip
TrimSet == {c \in StripSet : c \notin Range(Lowers) /\ c \notin Digits}

Alnums(s) == SelectSeq(s, LAMBDA c : c \in Range(Lowers) \/ c \in Digits)

\* C8: the final trim removes only whitespace and punctuation or quote
\* characters from the ends, never a letter or a digit.
C8_TrimKeepsAlnum ==
    (tx.phase = "extracted" /\ ~tx.steps.quoted)
    => /\ Alnums(tx.steps.result) = Alnums(tx.steps.cleaned)
       /\ tx.steps.result = StripChars(tx.steps.cleaned, TrimSet)

\* C9: in every index published or returned the keys of rows_by_norm are
\* titles_set, each key is the normalized title of the row stored under it,
\* and that row is a row of the dataset with a non-empty title.
C9_IndexWellFormed ==
    LET Good(idx, rows) ==
            /\ DOMAIN idx.rows_by_norm = idx.titles_set
            /\ \A k \in DOMAIN idx.rows_by_norm :
                 LET row == idx.rows_by_norm[k]
                 IN /\ normalize_title(TitleOf(row)) = k
                    /\ TitleOf(row) # <<>>
                    /\ \E i \in 1..Len(rows) : rows[i] = row
    IN /\ \A d \in DOMAIN cache : Good(cache[d], files[d])
       /\ \A t \in Threads :
            loc[t].index # NoIdx => Good(loc[t].index, files[loc[t].path])

C9_Witness ==
    \E d \in DOMAIN cache :
        /\ cache[d].titles_set # {}
        /\ \E i \in 1..Len(files[d]) : TitleOf(files[d][i]) = <<>>

\* C10: normalize_title applied to its own result returns that result.
C10_NormalizeIdempotent ==
    tx.phase = "renormalized" => tx.n2 = tx.n1

C10_Witness ==
    /\ tx.phase = "renormalized"
    /\ tx.n1 # <<>> /\ tx.n1 # tx.arg /\ tx.n1 # Lower(tx.arg)

====
